---- MODULE Spec2Model ----
(***************************************************************************)
(* Model of ratings.ts (maxmcd/mp-elo): the pipeline that turns the tick   *)
(* log into same-day batches of climber-vs-route comparisons, feeds them   *)
(* to the Glicko-2 engine and reports the two rating tables.               *)
(*                                                                         *)
(* Representation choices                                                  *)
(*  - A tick's date is the comma-delimited string the Mountain Project API *)
(*    emits, "Jan 1, 2020, 12:00 am"; it is kept as its sequence of        *)
(*    comma-delimited tokens <<"Jan 1", "2020", "12:00 am">>, so that      *)
(*    date.split(",")[0] is the first element and new Date(date).getTime() *)
(*    is computed from all three.                                          *)
(*  - Scores are kept in tenths (1.0 is 10, 0.9 is 9, 0.7 is 7, 0.0 is 0); *)
(*    null is NULL, a value outside every score.                           *)
(*  - A rating object made by ranking.makePlayer() is its index in the     *)
(*    engine's player list; the two Maps hold such indices.                *)
(*  - The engine is the npm package glicko2, not part of the repository:   *)
(*    of a rating only its position relative to the default is kept.       *)
(*  - A comparison carries, besides [player, route, score], the id of the  *)
(*    tick it was made from (history, not read by any action).             *)
(***************************************************************************)
EXTENDS Integers, Sequences, FiniteSets, TLC

VARIABLES ticks, pc, names, userTicks, sortedTicks, idx, score,
          currentDate, currentMatches, processedTicks,
          players, routeRatings, rankingPlayers, calls,
          climberRatings, routeResults

vars == <<ticks, pc, names, userTicks, sortedTicks, idx, score,
          currentDate, currentMatches, processedTicks,
          players, routeRatings, rankingPlayers, calls,
          climberRatings, routeResults>>

\* ------------------------------------------------------------------ bounds
MaxLen == 2
MaxLenBatch == 3
MaxLenScore == 3
MaxLenNames == 3

\* ------------------------------------------------------------------ values
NULL == -1
Undefined == "<undefined>"
UserFalse == [id |-> 0, name |-> "<false>"]
UserUndefined == [id |-> 0, name |-> "<undefined>"]

EmptyMap == <<>>

Put(m, k, v) == [x \in (DOMAIN m) \cup {k} |-> IF x = k THEN v ELSE m[x]]

Range(s) == {s[i] : i \in DOMAIN s}

\* ------------------------------------------------------------------ dates
MonthDays == {"Jan 1", "Jan 2"}
Years == {"2020", "2021"}
Times == {"12:00 am", "1:00 pm"}

DayOfYear(tok) == CASE tok = "Jan 1" -> 0
                    [] tok = "Jan 2" -> 1

YearOf(tok) == CASE tok = "2020" -> 2020
                 [] tok = "2021" -> 2021

HourOf(tok) == CASE tok = "12:00 am" -> 0
                 [] tok = "1:00 pm" -> 13

\* new Date(date).getTime(), in hours since the start of year 0 of a
\* 366-day calendar: strictly monotone in the instant the string names.
getTime(date) == (YearOf(date[2]) * 366 + DayOfYear(date[1])) * 24 + HourOf(date[3])

\* The calendar date of a timestamp: its year and its day of the year.
CalendarDate(date) == YearOf(date[2]) * 366 + DayOfYear(date[1])

\* date.split(",")[0]
SplitFirst(date) == date[1]

\* ------------------------------------------------------------------ getScore
getScoreMixed(leadStyle) ==
    CASE leadStyle = "Onsight" -> 10
      [] leadStyle = "Flash" -> 8
      [] leadStyle = "Redpoint" -> 7
      [] leadStyle = "Fell/Hung" -> 0
      [] OTHER -> NULL

getScore(leadStyle) ==
    CASE leadStyle = "Onsight" -> 10
      [] leadStyle = "Flash" -> 9
      [] leadStyle = "Redpoint" -> 7
      [] leadStyle = "Fell/Hung" -> 0
      [] OTHER -> NULL

\* ------------------------------------------------------------------ filters
PassesFirstFilterAnyStyle(tick) ==
    /\ tick.user # UserUndefined
    /\ tick.user # UserFalse
    /\ tick.leadStyle # Undefined

PassesFirstFilter(tick) ==
    /\ tick.user # UserUndefined
    /\ tick.user # UserFalse
    /\ tick.leadStyle # Undefined
    /\ tick.style = "Lead"

RECURSIVE FirstFilterFirstWins(_, _)
FirstFilterFirstWins(ts, acc) ==
    IF ts = <<>> THEN acc
    ELSE LET tick == Head(ts) IN
         IF PassesFirstFilter(tick)
         THEN FirstFilterFirstWins(Tail(ts),
                [names |-> IF tick.user.id \in DOMAIN acc.names THEN acc.names
                           ELSE Put(acc.names, tick.user.id, tick.user.name),
                 userTicks |-> Put(acc.userTicks, tick.user.id,
                                   (IF tick.user.id \in DOMAIN acc.userTicks
                                    THEN acc.userTicks[tick.user.id]
                                    ELSE <<>>) \o <<tick>>),
                 out |-> Append(acc.out, tick)])
         ELSE FirstFilterFirstWins(Tail(ts), acc)

\* The first filter callback run over the log in order; acc carries the two
\* indexes it builds as a side effect and the ticks it has let through.
RECURSIVE FirstFilter(_, _)
FirstFilter(ts, acc) ==
    IF ts = <<>> THEN acc
    ELSE LET tick == Head(ts) IN
         IF PassesFirstFilter(tick)
         THEN FirstFilter(Tail(ts),
                [names |-> Put(acc.names, tick.user.id, tick.user.name),
                 userTicks |-> Put(acc.userTicks, tick.user.id,
                                   (IF tick.user.id \in DOMAIN acc.userTicks
                                    THEN acc.userTicks[tick.user.id]
                                    ELSE <<>>) \o <<tick>>),
                 out |-> Append(acc.out, tick)])
         ELSE FirstFilter(Tail(ts), acc)

HasFellHungSelf(ut, tick) == tick.leadStyle = "Fell/Hung"

HasFellHungAlways(ut, tick) == TRUE

\* userTicks.get(tick.user.id)?.some((t) => t.leadStyle === "Fell/Hung")
HasFellHung(ut, tick) ==
    /\ tick.user.id \in DOMAIN ut
    /\ \E i \in DOMAIN ut[tick.user.id] : ut[tick.user.id][i].leadStyle = "Fell/Hung"

SecondFilter(ts, ut) == SelectSeq(ts, LAMBDA tick : HasFellHung(ut, tick))

\* ------------------------------------------------------------------ sort
RECURSIVE InsertByTime(_, _)
InsertByTime(sorted, tick) ==
    IF sorted = <<>> THEN <<tick>>
    ELSE IF getTime(Head(sorted).date) - getTime(tick.date) > 0
         THEN <<tick>> \o sorted
         ELSE <<Head(sorted)>> \o InsertByTime(Tail(sorted), tick)

RECURSIVE SortFrom(_, _)
SortFrom(ts, sorted) ==
    IF ts = <<>> THEN sorted
    ELSE SortFrom(Tail(ts), InsertByTime(sorted, Head(ts)))

SortUnsorted(ts) == ts

\* .sort((a, b) => new Date(a.date).getTime() - new Date(b.date).getTime()):
\* a stable sort, ascending by getTime.
SortByDate(ts) == SortFrom(ts, <<>>)

\* ------------------------------------------------------------------ engine
\* ranking.makePlayer(): a rating at the defaults (1500, 350, 0.06) that no
\* rating period has touched yet.
makePlayer == [rating |-> "default", fresh |-> TRUE]

Played(h, matches) ==
    \E i \in DOMAIN matches : matches[i].player = h \/ matches[i].route = h

Opponents(h, matches) ==
    {matches[i].route : i \in {j \in DOMAIN matches : matches[j].player = h}}
    \cup {matches[i].player : i \in {j \in DOMAIN matches : matches[j].route = h}}

\* Twice the sum over h's games of (outcome - 0.5), in tenths: the first of a
\* match scores s, the second 1 - s.
RECURSIVE Balance(_, _)
Balance(h, matches) ==
    IF matches = <<>> THEN 0
    ELSE LET m == Head(matches) IN
         (IF m.player = h THEN 2 * m.score - 10 ELSE 0)
         + (IF m.route = h THEN 10 - 2 * m.score ELSE 0)
         + Balance(h, Tail(matches))

SignOf(n) == IF n > 0 THEN "above" ELSE IF n < 0 THEN "below" ELSE "default"

\* ranking.updateRatings(matches): one Glicko-2 rating period over every
\* player of the engine. A player without a game keeps its rating (only its
\* deviation grows). A player at the defaults whose opponents are all at the
\* defaults moves by a positive multiple of Balance; of any other update only
\* the fact that the rating has moved is kept.
updateRatings(rp, matches) ==
    [h \in DOMAIN rp |->
        IF ~Played(h, matches) THEN [rp[h] EXCEPT !.fresh = FALSE]
        ELSE IF rp[h].fresh /\ \A o \in Opponents(h, matches) : rp[o].fresh
             THEN [rating |-> SignOf(Balance(h, matches)), fresh |-> FALSE]
             ELSE [rating |-> "moved", fresh |-> FALSE]]

getOrCreateRatingFresh(id, map, rp) ==
    [map |-> Put(map, id, Len(rp) + 1), ranking |-> Append(rp, makePlayer)]

\* getOrCreateRating(id, map): the map and the engine's player list after the
\* call; the rating returned is .map[id].
getOrCreateRating(id, map, rp) ==
    IF id \notin DOMAIN map
    THEN [map |-> Put(map, id, Len(rp) + 1), ranking |-> Append(rp, makePlayer)]
    ELSE [map |-> map, ranking |-> rp]

\* ------------------------------------------------------------------ batch loop
IsUnratableNever(s) == FALSE

\* if (score === null) continue;
IsUnratable(s) == s = NULL

ShouldFlushAlways(cd, tickDate, cm) == cd # "" /\ Len(cm) > 0

\* currentDate && tickDate !== currentDate && currentMatches.length > 0
ShouldFlush(cd, tickDate, cm) == cd # "" /\ tickDate # cd /\ Len(cm) > 0

FinalFlushNever(cm) == FALSE

\* if (currentMatches.length > 0)
FinalFlushNeeded(cm) == Len(cm) > 0

\* ------------------------------------------------------------------ inputs
Users == {[id |-> 1, name |-> "ann"], [id |-> 2, name |-> "bob"]}

Dates == {<<d, y, t>> : d \in MonthDays, y \in Years, t \in Times}

TicksFilter ==
    [id : {0}, routeId : {1, 2},
     date : {<<"Jan 1", "2020", "12:00 am">>, <<"Jan 2", "2020", "12:00 am">>},
     style : {"Lead", "TR"},
     leadStyle : {"Onsight", "Fell/Hung", "Pinkpoint", Undefined},
     user : Users \cup {UserFalse}]

TicksBatch ==
    [id : {0}, routeId : {1},
     date : Dates,
     style : {"Lead"},
     leadStyle : {"Onsight", "Fell/Hung", "Pinkpoint"},
     user : {[id |-> 1, name |-> "ann"]}]

TicksScore ==
    [id : {0}, routeId : {1},
     date : {<<"Jan 1", "2020", "12:00 am">>, <<"Jan 2", "2020", "12:00 am">>},
     style : {"Lead"},
     leadStyle : {"Onsight", "Flash", "Redpoint", "Fell/Hung", "Pinkpoint", "", Undefined},
     user : {[id |-> 1, name |-> "ann"]}]

\* One climber id under two spellings of the name, and a second climber.
TicksNames ==
    [id : {0}, routeId : {1},
     date : {<<"Jan 1", "2020", "12:00 am">>, <<"Jan 2", "2020", "12:00 am">>},
     style : {"Lead", "TR"},
     leadStyle : {"Fell/Hung", "Pinkpoint", Undefined},
     user : {[id |-> 1, name |-> "ann"], [id |-> 1, name |-> "anna"],
             [id |-> 2, name |-> "bob"]}]

\* ------------------------------------------------------------------ state machine
\* The state before the statement that builds sortedTicks: the log holds at
\* most n ticks drawn from D, each with its position in the log as id.
InitWith(D, n) ==
    /\ \E k \in 0..n : \E f \in [1..k -> D] :
          ticks = [i \in 1..k |-> [f[i] EXCEPT !.id = i]]
    /\ pc = "sort"
    /\ names = EmptyMap
    /\ userTicks = EmptyMap
    /\ sortedTicks = <<>>
    /\ idx = 1
    /\ score = NULL
    /\ currentDate = ""
    /\ currentMatches = <<>>
    /\ processedTicks = 0
    /\ players = EmptyMap
    /\ routeRatings = EmptyMap
    /\ rankingPlayers = <<>>
    /\ calls = <<>>
    /\ climberRatings = {}
    /\ routeResults = {}

Init == InitWith(TicksFilter, MaxLen)

InitBatch == InitWith(TicksBatch, MaxLenBatch)

InitScore == InitWith(TicksScore, MaxLenScore)

InitNames == InitWith(TicksNames, MaxLenNames)

\* const sortedTicks = ticks.filter(...).filter(...).sort(...)
SortTicks ==
    /\ pc = "sort"
    /\ LET first == FirstFilter(ticks, [names |-> EmptyMap, userTicks |-> EmptyMap, out |-> <<>>])
       IN /\ names' = first.names
          /\ userTicks' = first.userTicks
          /\ sortedTicks' = SortByDate(SecondFilter(first.out, first.userTicks))
    /\ pc' = "loop"
    /\ UNCHANGED <<ticks, idx, score, currentDate, currentMatches, processedTicks,
                   players, routeRatings, rankingPlayers, calls,
                   climberRatings, routeResults>>

\* One iteration of for (const tick of sortedTicks).
LoopStep ==
    /\ pc = "loop"
    /\ idx <= Len(sortedTicks)
    /\ idx' = idx + 1
    /\ score' = getScore(sortedTicks[idx].leadStyle)
    /\ LET tick == sortedTicks[idx]
       IN IF IsUnratable(score')
          THEN UNCHANGED <<currentDate, currentMatches, processedTicks,
                           players, routeRatings, rankingPlayers, calls>>
          ELSE LET tickDate == SplitFirst(tick.date)
                   flush == ShouldFlush(currentDate, tickDate, currentMatches)
                   rp1 == IF flush THEN updateRatings(rankingPlayers, currentMatches)
                          ELSE rankingPlayers
                   cm1 == IF flush THEN <<>> ELSE currentMatches
               IN /\ calls' = IF flush THEN Append(calls, currentMatches) ELSE calls
                  /\ processedTicks' = IF flush THEN processedTicks + Len(currentMatches)
                                       ELSE processedTicks
                  /\ currentDate' = tickDate
                  /\ IF tick.user = UserFalse \/ tick.user = UserUndefined
                     THEN /\ currentMatches' = cm1
                          /\ rankingPlayers' = rp1
                          /\ UNCHANGED <<players, routeRatings>>
                     ELSE LET p == getOrCreateRating(tick.user.id, players, rp1)
                              r == getOrCreateRating(tick.routeId, routeRatings, p.ranking)
                          IN /\ players' = p.map
                             /\ routeRatings' = r.map
                             /\ rankingPlayers' = r.ranking
                             /\ currentMatches' =
                                   Append(cm1, [player |-> p.map[tick.user.id],
                                                route |-> r.map[tick.routeId],
                                                score |-> score',
                                                tick |-> tick.id])
    /\ UNCHANGED <<ticks, pc, names, userTicks, sortedTicks, climberRatings, routeResults>>

\* The final batch, after the walk.
FinalFlush ==
    /\ pc = "loop"
    /\ idx > Len(sortedTicks)
    /\ IF FinalFlushNeeded(currentMatches)
       THEN /\ rankingPlayers' = updateRatings(rankingPlayers, currentMatches)
            /\ calls' = Append(calls, currentMatches)
            /\ processedTicks' = processedTicks + Len(currentMatches)
       ELSE UNCHANGED <<rankingPlayers, calls, processedTicks>>
    /\ pc' = "report"
    /\ UNCHANGED <<ticks, names, userTicks, sortedTicks, idx, score, currentDate,
                   currentMatches, players, routeRatings, climberRatings, routeResults>>

\* climberRatings and routeResults, one record per entry of each Map. The
\* order of the two tables (descending rating) is not kept: it depends on the
\* numbers the engine computes. routeInfo, joined from the routes file, and rd
\* and vol are left out.
Report ==
    /\ pc = "report"
    /\ climberRatings' =
          {[id |-> id,
            userName |-> IF id \in DOMAIN names THEN names[id] ELSE Undefined,
            rating |-> rankingPlayers[players[id]].rating] : id \in DOMAIN players}
    /\ routeResults' =
          {[id |-> id, rating |-> rankingPlayers[routeRatings[id]].rating]
             : id \in DOMAIN routeRatings}
    /\ pc' = "done"
    /\ UNCHANGED <<ticks, names, userTicks, sortedTicks, idx, score, currentDate,
                   currentMatches, processedTicks, players, routeRatings,
                   rankingPlayers, calls>>

Next == SortTicks \/ LoopStep \/ FinalFlush \/ Report

Spec == Init /\ [][Next]_vars

SpecBatch == InitBatch /\ [][Next]_vars

SpecScore == InitScore /\ [][Next]_vars

SpecNames == InitNames /\ [][Next]_vars

\* ------------------------------------------------------------------ history
RECURSIVE Flatten(_)
Flatten(ss) == IF ss = <<>> THEN <<>> ELSE Head(ss) \o Flatten(Tail(ss))

\* The comparisons passed to the engine, over all updateRatings calls, in call order.
Applied == Flatten(calls)

\* The comparisons of the current batch that no call has passed on yet.
Pending == IF pc = "loop" THEN currentMatches ELSE <<>>

\* Every comparison made so far.
Made == Applied \o Pending

Finished == pc \in {"report", "done"}

HasClimber(t) == t.user # UserFalse /\ t.user # UserUndefined

DateOf(m) == CalendarDate(ticks[m.tick].date)

EntriesOf(k, ms) == {i \in DOMAIN ms : ms[i].tick = k}

InSorted(k) == \E i \in DOMAIN sortedTicks : sortedTicks[i].id = k

NonDecreasing(ms) ==
    \A i, j \in DOMAIN ms :
        i < j => getTime(ticks[ms[i].tick].date) <= getTime(ticks[ms[j].tick].date)

\* ------------------------------------------------------------------ C1
\* Eligibility as the claim words it: a climber, a non-empty label, mode "Lead".
EligibleAsClaimed(t) ==
    HasClimber(t) /\ t.leadStyle # Undefined /\ t.leadStyle # "" /\ t.style = "Lead"

\* A Fell/Hung tick of climber id, among the ticks the first filter lets through.
HasLeadFall(id) ==
    \E j \in DOMAIN ticks :
        /\ HasClimber(ticks[j]) /\ ticks[j].user.id = id
        /\ ticks[j].style = "Lead" /\ ticks[j].leadStyle = "Fell/Hung"

\* The events the code rates: a climber, mode "Lead", a label getScore
\* recognizes, and a climber with a Fell/Hung lead tick somewhere in the log.
Rated(t) ==
    /\ HasClimber(t) /\ t.style = "Lead"
    /\ t.leadStyle \in {"Onsight", "Flash", "Redpoint", "Fell/Hung"}
    /\ HasLeadFall(t.user.id)

\* C1 as stated: after the run the comparisons passed to the engine hold
\* exactly one entry per eligible event (climber, non-empty label, mode Lead),
\* in non-decreasing timestamp order, and none for an event with a missing
\* climber, an unratable label or a non-Lead mode.
C1_AsStated ==
    Finished =>
        /\ \A k \in DOMAIN ticks :
              EligibleAsClaimed(ticks[k]) => Cardinality(EntriesOf(k, Applied)) = 1
        /\ \A k \in DOMAIN ticks :
              (~HasClimber(ticks[k]) \/ getScore(ticks[k].leadStyle) = NULL
                 \/ ticks[k].style # "Lead") => EntriesOf(k, Applied) = {}
        /\ NonDecreasing(Applied)

\* C1 (amended): after the run the comparisons passed to the engine hold
\* exactly one entry per event that has a climber, a label getScore
\* recognizes, mode exactly "Lead" and a climber with at least one Fell/Hung
\* lead tick in the log; they are in non-decreasing timestamp order; and
\* there is no entry for any other event.
C1_Comparisons ==
    Finished =>
        /\ \A k \in DOMAIN ticks :
              Cardinality(EntriesOf(k, Applied)) = IF Rated(ticks[k]) THEN 1 ELSE 0
        /\ \A i \in DOMAIN Applied : Applied[i].tick \in DOMAIN ticks
        /\ NonDecreasing(Applied)

\* Both ticks of the log were rated, and the sort put the second, which is the
\* earlier one, first.
C1_Witness ==
    /\ pc = "done"
    /\ Len(Applied) = 2
    /\ Applied[1].tick = 2
    /\ getTime(ticks[2].date) < getTime(ticks[1].date)

\* ------------------------------------------------------------------ C2
ScenarioA ==
    /\ Len(ticks) = 1
    /\ HasClimber(ticks[1])
    /\ ticks[1].style = "Lead"
    /\ ticks[1].leadStyle = "Onsight"

ScenarioFall ==
    /\ Len(ticks) = 1
    /\ HasClimber(ticks[1])
    /\ ticks[1].style = "Lead"
    /\ ticks[1].leadStyle = "Fell/Hung"

\* The run rated the single tick of the log with score s: one rating for its
\* climber, one for its route, one batch of one comparison, one record per
\* table with the climber's rating at c and the route's at r.
RatedOnce(s, c, r) ==
    /\ DOMAIN players = {ticks[1].user.id}
    /\ DOMAIN routeRatings = {ticks[1].routeId}
    /\ Len(calls) = 1
    /\ Len(calls[1]) = 1
    /\ calls[1][1].player = players[ticks[1].user.id]
    /\ calls[1][1].route = routeRatings[ticks[1].routeId]
    /\ calls[1][1].score = s
    /\ climberRatings = {[id |-> ticks[1].user.id, userName |-> ticks[1].user.name,
                          rating |-> c]}
    /\ routeResults = {[id |-> ticks[1].routeId, rating |-> r]}

\* C2 as stated: when the log holds a single Lead "Onsight" tick by C on R,
\* the run leaves a rating for C and for R, one comparison (C, R, 1.0) applied
\* in one batch, and one record per table, C above the default and R below.
C2_AsStated == (pc = "done" /\ ScenarioA) => RatedOnce(10, "above", "below")

\* C2 (amended): when the log holds a single Lead "Onsight" tick by C on R,
\* the population filter drops it (C has no Fell/Hung tick): no rating is
\* created, no batch is applied and both tables are empty. When the single
\* tick is a Lead "Fell/Hung" instead, one comparison (C, R, 0.0) is applied
\* in one batch and each table holds one record, C below the default and R
\* above it.
C2_ScenarioA ==
    /\ (pc = "done" /\ ScenarioA) =>
          /\ players = EmptyMap
          /\ routeRatings = EmptyMap
          /\ rankingPlayers = <<>>
          /\ calls = <<>>
          /\ processedTicks = 0
          /\ climberRatings = {}
          /\ routeResults = {}
    /\ (pc = "done" /\ ScenarioFall) => RatedOnce(0, "below", "above")

C2_Witness == pc = "done" /\ ScenarioA /\ sortedTicks = <<>>

\* ------------------------------------------------------------------ C3
\* C3: no updateRatings call receives comparisons from two events whose
\* timestamps fall on different calendar dates.
C3_OneDatePerBatch ==
    \A c \in DOMAIN calls : \A i, j \in DOMAIN calls[c] :
        DateOf(calls[c][i]) = DateOf(calls[c][j])

\* ------------------------------------------------------------------ C4
\* C4: two events that both yield a comparison and share a calendar date have
\* their comparisons passed to the engine in the same updateRatings call: no
\* two calls, and no call and the current batch, hold comparisons of one date.
C4_SameDateSameBatch ==
    /\ \A c, d \in DOMAIN calls : \A i \in DOMAIN calls[c], j \in DOMAIN calls[d] :
          DateOf(calls[c][i]) = DateOf(calls[d][j]) => c = d
    /\ \A c \in DOMAIN calls : \A i \in DOMAIN calls[c], j \in DOMAIN Pending :
          DateOf(calls[c][i]) # DateOf(Pending[j])

\* Ticks 1 and 3 of the log share a batch although tick 2, of the same date and
\* lying between them in time order, is unratable; an earlier or later batch
\* exists beside it.
C4_Witness ==
    /\ pc = "done"
    /\ Len(ticks) = 3
    /\ getScore(ticks[2].leadStyle) = NULL
    /\ InSorted(2)
    /\ getTime(ticks[1].date) <= getTime(ticks[2].date)
    /\ getTime(ticks[2].date) <= getTime(ticks[3].date)
    /\ \E c \in DOMAIN calls :
          /\ Len(calls[c]) = 2
          /\ calls[c][1].tick = 1
          /\ calls[c][2].tick = 3
          /\ DateOf(calls[c][1]) = DateOf(calls[c][2])

\* ------------------------------------------------------------------ C5
\* C5: batches reach the engine in ascending calendar-date order: every
\* comparison of a call is of a later date than every comparison of every
\* earlier call, and the current batch is later than every call made.
C5_AscendingDates ==
    /\ \A c, d \in DOMAIN calls : \A i \in DOMAIN calls[c], j \in DOMAIN calls[d] :
          c < d => DateOf(calls[c][i]) < DateOf(calls[d][j])
    /\ \A c \in DOMAIN calls : \A i \in DOMAIN calls[c], j \in DOMAIN Pending :
          DateOf(calls[c][i]) < DateOf(Pending[j])

\* Three batches were applied from a log written in the opposite order.
C5_Witness ==
    /\ pc = "done"
    /\ Len(calls) = 3
    /\ calls[1][1].tick = 3
    /\ calls[3][1].tick = 1

\* ------------------------------------------------------------------ C6
\* C6 as stated: the population filter retains an event exactly when its
\* climber has logged a "Fell/Hung" outcome anywhere in the full log, whether
\* or not that Fell/Hung event is otherwise eligible.
C6_AsStated ==
    pc # "sort" =>
        \A k \in DOMAIN ticks :
            PassesFirstFilter(ticks[k]) =>
                (InSorted(k) <=>
                    \E j \in DOMAIN ticks :
                        /\ HasClimber(ticks[j])
                        /\ ticks[j].user.id = ticks[k].user.id
                        /\ ticks[j].leadStyle = "Fell/Hung")

\* C6 (amended): the population filter retains an event exactly when its
\* climber has logged a "Fell/Hung" outcome in mode "Lead" anywhere in the
\* full log (only events with a climber, a defined label and mode "Lead" are
\* indexed); the index is complete before any batching, so the decision does
\* not depend on where in the log the Fell/Hung event lies. Events the first
\* filter dropped never reach sortedTicks.
C6_PopulationFilter ==
    pc # "sort" =>
        /\ \A k \in DOMAIN ticks :
              InSorted(k) <=>
                  (PassesFirstFilter(ticks[k]) /\ HasLeadFall(ticks[k].user.id))
        /\ \A i \in DOMAIN sortedTicks :
              /\ sortedTicks[i].id \in DOMAIN ticks
              /\ sortedTicks[i] = ticks[sortedTicks[i].id]

\* An Onsight is retained although its climber's only Fell/Hung comes later in
\* the log and on a later date.
C6_Witness ==
    /\ pc = "loop"
    /\ Len(ticks) = 2
    /\ ticks[1].leadStyle = "Onsight"
    /\ ticks[2].leadStyle = "Fell/Hung"
    /\ getTime(ticks[1].date) < getTime(ticks[2].date)
    /\ InSorted(1)
    /\ InSorted(2)

\* ------------------------------------------------------------------ C7
ClimberCompared(c, ms) ==
    \E i \in DOMAIN ms : ticks[ms[i].tick].user.id = c /\ ms[i].player = players[c]

RouteCompared(r, ms) ==
    \E i \in DOMAIN ms : ticks[ms[i].tick].routeId = r /\ ms[i].route = routeRatings[r]

\* C7: an identity with no comparison is never created in players or
\* routeRatings and appears in neither table; an event whose label getScore
\* does not recognize contributes no comparison; and every identity of a table
\* took part in a comparison passed to the engine.
C7_NoComparisonNoIdentity ==
    /\ \A c \in DOMAIN players : ClimberCompared(c, Made)
    /\ \A r \in DOMAIN routeRatings : RouteCompared(r, Made)
    /\ \A i \in DOMAIN Made :
          ticks[Made[i].tick].leadStyle \in {"Onsight", "Flash", "Redpoint", "Fell/Hung"}
    /\ Len(rankingPlayers) = Cardinality(DOMAIN players) + Cardinality(DOMAIN routeRatings)
    /\ pc # "done" => climberRatings = {} /\ routeResults = {}
    /\ pc = "done" =>
          /\ {x.id : x \in climberRatings} = DOMAIN players
          /\ {x.id : x \in routeResults} = DOMAIN routeRatings
          /\ \A x \in climberRatings : ClimberCompared(x.id, Applied)
          /\ \A x \in routeResults : RouteCompared(x.id, Applied)

\* A "Pinkpoint" lead tick reached the loop (its climber has a Fell/Hung tick
\* on another route) and neither it nor its route is in the tables.
C7_Witness ==
    /\ pc = "done"
    /\ Len(ticks) = 2
    /\ ticks[1].leadStyle = "Fell/Hung"
    /\ ticks[2].leadStyle = "Pinkpoint"
    /\ InSorted(2)
    /\ ticks[2].routeId # ticks[1].routeId
    /\ {x.id : x \in routeResults} = {ticks[1].routeId}
    /\ {x.id : x \in climberRatings} = {ticks[1].user.id}

\* ------------------------------------------------------------------ C8
\* The documented table with Flash at f and Redpoint at r (tenths).
Documented(leadStyle, f, r) ==
    CASE leadStyle = "Onsight" -> 10
      [] leadStyle = "Flash" -> f
      [] leadStyle = "Redpoint" -> r
      [] leadStyle = "Fell/Hung" -> 0
      [] OTHER -> NULL

\* Every score the run has computed so far is the one of the table (f, r).
ScoresFollow(f, r) ==
    /\ (pc = "loop" /\ idx > 1) => score = Documented(sortedTicks[idx - 1].leadStyle, f, r)
    /\ \A i \in DOMAIN Made : Made[i].score = Documented(ticks[Made[i].tick].leadStyle, f, r)

\* C8: getScore returns the documented constant for every recognized label
\* (Onsight 1.0, Fell/Hung 0.0, and Flash 0.8 with Redpoint 0.6 or Flash 0.9
\* with Redpoint 0.7, one of the two variants throughout), null for every
\* other string, the empty one included; every score lies in [0, 1].
C8_ScoreTable ==
    /\ ScoresFollow(8, 6) \/ ScoresFollow(9, 7)
    /\ \A i \in DOMAIN Made : Made[i].score \in 0..10
    /\ score = NULL \/ score \in 0..10

\* The loop has just scored an empty label as null, after a Flash went into a
\* comparison at 0.9.
C8_Witness ==
    /\ pc = "loop"
    /\ idx > 1
    /\ sortedTicks[idx - 1].leadStyle = ""
    /\ score = NULL
    /\ \E i \in DOMAIN Made : ticks[Made[i].tick].leadStyle = "Flash" /\ Made[i].score = 9

\* ------------------------------------------------------------------ C9
Injective(m) == \A a, b \in DOMAIN m : m[a] = m[b] => a = b

\* C9: every comparison pairs the state the climber map holds for the event's
\* climber id with the state the route map holds for the event's route id;
\* each id keeps the one state made at its first reference; no state belongs
\* to two ids or to both maps, so a climber and a route with the same numeric
\* id have distinct states.
C9_TwoPopulations ==
    /\ \A i \in DOMAIN Made :
          LET t == ticks[Made[i].tick] IN
          /\ t.user.id \in DOMAIN players
          /\ Made[i].player = players[t.user.id]
          /\ t.routeId \in DOMAIN routeRatings
          /\ Made[i].route = routeRatings[t.routeId]
          /\ Made[i].player # Made[i].route
    /\ Injective(players)
    /\ Injective(routeRatings)
    /\ Range(players) \cap Range(routeRatings) = {}
    /\ Range(players) \cup Range(routeRatings) = DOMAIN rankingPlayers

\* Climber 1 met route 1 twice: both comparisons use the same two states, and
\* the climber's state is not the route's.
C9_Witness ==
    /\ pc = "done"
    /\ Len(Applied) = 2
    /\ ticks[1].user.id = 1
    /\ ticks[2].user.id = 1
    /\ ticks[1].routeId = 1
    /\ ticks[2].routeId = 1
    /\ Applied[1].player = Applied[2].player
    /\ Applied[1].route = Applied[2].route
    /\ players[1] # routeRatings[1]

\* ------------------------------------------------------------------ C10
TickIds(ms) == {ms[i].tick : i \in DOMAIN ms}

\* The ticks among the first n of sortedTicks that getScore can rate: each
\* makes one comparison.
RatableUpTo(n) ==
    {sortedTicks[i].id : i \in {j \in 1..n : getScore(sortedTicks[j].leadStyle) # NULL}}

\* C10: every comparison appended to the current batch reaches the engine
\* exactly once: no batch passed to updateRatings is empty, no comparison is
\* passed twice, processedTicks counts the comparisons passed, during the walk
\* the calls and the current batch together hold one comparison per ratable
\* tick walked, and after the final flush the calls hold them all.
C10_FlushedOnce ==
    /\ \A c \in DOMAIN calls : Len(calls[c]) > 0
    /\ processedTicks = Len(Applied)
    /\ Cardinality(TickIds(Made)) = Len(Made)
    /\ pc = "loop" => TickIds(Made) = RatableUpTo(idx - 1)
    /\ Finished =>
          /\ TickIds(Applied) = RatableUpTo(Len(sortedTicks))
          /\ processedTicks = Cardinality(RatableUpTo(Len(sortedTicks)))

\* Two batches: one flushed inside the walk, the last one after it.
C10_Witness ==
    /\ pc = "done"
    /\ Len(calls) = 2
    /\ Len(calls[2]) = 2
    /\ processedTicks = 3
    /\ currentMatches = calls[2]

\* ------------------------------------------------------------------ C11
\* The ticks of climber id that carry a climber, a defined label and mode "Lead".
NamingTicks(id) ==
    {k \in DOMAIN ticks :
        /\ HasClimber(ticks[k]) /\ ticks[k].user.id = id
        /\ ticks[k].leadStyle # Undefined /\ ticks[k].style = "Lead"}

LastOf(ks) == CHOOSE k \in ks : \A j \in ks : j <= k

\* C11: the name reported for a climber is the one carried by the last event of
\* the log, in log order, that is of that climber id and has a climber, a
\* defined label and mode "Lead", whether or not its label can be rated; the
\* events that fail that filter never change it.
C11_LastNameWins ==
    /\ pc # "sort" =>
          /\ DOMAIN names = {id \in {ticks[k].user.id : k \in DOMAIN ticks} :
                                NamingTicks(id) # {}}
          /\ \A id \in DOMAIN names : names[id] = ticks[LastOf(NamingTicks(id))].user.name
    /\ pc = "done" =>
          \A x \in climberRatings :
              /\ NamingTicks(x.id) # {}
              /\ x.userName = ticks[LastOf(NamingTicks(x.id))].user.name

\* The climber is reported under the name of tick 2, an unratable "Pinkpoint"
\* that is the earlier one in time; tick 1, rated, spells the name otherwise,
\* and tick 3, not a lead, does too and comes last.
C11_Witness ==
    /\ pc = "done"
    /\ Len(ticks) = 3
    /\ \A k \in 1..3 : ticks[k].user.id = 1
    /\ ticks[1].style = "Lead" /\ ticks[1].leadStyle = "Fell/Hung"
    /\ ticks[2].style = "Lead" /\ ticks[2].leadStyle = "Pinkpoint"
    /\ ticks[3].style = "TR" /\ ticks[3].leadStyle = "Fell/Hung"
    /\ getTime(ticks[2].date) < getTime(ticks[1].date)
    /\ ticks[1].user.name = "ann"
    /\ ticks[2].user.name = "anna"
    /\ ticks[3].user.name = "ann"
    /\ \E x \in climberRatings : x.id = 1 /\ x.userName = "anna"

====
